---- MODULE Spec2Model ----
(***************************************************************************)
(* Model of docs/hooks.py: the documentation build hook that copies the    *)
(* directories 'build' and 'demos' into <site_dir>/dist and                *)
(* <site_dir>/demos.                                                       *)
(*                                                                         *)
(* The file system is one name space: a function from the paths that exist *)
(* (sequences of names, relative to the working directory) to their node.  *)
(* The library calls the hook makes (os.makedirs, os.listdir,              *)
(* os.path.isdir, shutil.copytree, shutil.copy2) are modelled by what      *)
(* CPython does for them on a file system without symbolic links and       *)
(* without permission failures.                                            *)
(***************************************************************************)
EXTENDS Integers, Sequences, FiniteSets, TLC

VARIABLES
    site_dir,   \* config['site_dir'], a path
    fs,         \* the file system: existing path -> node
    pc,         \* "idle", "copy_directory", "copy_tree", "loop"
    job,        \* index in DirPaths of the copy_directory call in progress
    stack,      \* the directory loops in progress: copy_tree, then copytree calls
    result,     \* outcome of the last invocation
    calls,      \* number of invocations started
    start,      \* history: the file system when the current invocation began
    first,      \* history: file system and outcome at the end of invocation 1
    trace       \* history: the file system operations of the current invocation

vars == <<site_dir, fs, pc, job, stack, result, calls, start, first, trace>>

\* ------------------------------------------------------------------ bounds
\* number of invocations of the hook in one behaviour
MaxCalls == 2

\* ------------------------------------------------------------ file system
T0 == "t0"      \* modification time of the files present initially
Now == "now"    \* modification time a newly written file gets

Dir == [kind |-> "dir", data |-> <<>>, mtime |-> "-"]
File(data, mtime) == [kind |-> "file", data |-> data, mtime |-> mtime]

Exists(f, p) == p \in DOMAIN f
IsDir(f, p) == p \in DOMAIN f /\ f[p].kind = "dir"
IsFile(f, p) == p \in DOMAIN f /\ f[p].kind = "file"

Parent(p) == SubSeq(p, 1, Len(p) - 1)
Prefixes(p) == {SubSeq(p, 1, k) : k \in 0..Len(p)}
IsPrefix(p, q) == Len(p) <= Len(q) /\ SubSeq(q, 1, Len(p)) = p
\* os.path.join(a, b) for a relative b
Join(a, b) == a \o <<b>>

\* os.listdir(p): the names of the entries of directory p
ListDir(f, p) == {q[Len(q)] : q \in {r \in DOMAIN f : Len(r) = Len(p) + 1 /\ IsPrefix(p, r)}}

Put(f, p, node) == [q \in DOMAIN f \cup {p} |-> IF q = p THEN node ELSE f[q]]

\* the outcome of a library call: the error it raises ("ok": none), the
\* file system it leaves and the path it wrote
Outcome(err, f, to) == [err |-> err, fs |-> f, to |-> to]

\* mutant of makedirs: os.mkdir semantics, the parent of d has to exist
makedirs_mkdir(f, d) ==
    IF IsFile(f, d) THEN Outcome("FileExistsError", f, d)
    ELSE IF ~IsDir(f, Parent(d)) THEN Outcome("FileNotFoundError", f, d)
    ELSE Outcome("ok", IF Exists(f, d) THEN f ELSE Put(f, d, Dir), d)

\* mutant of makedirs: a regular file in the way is replaced by a directory
makedirs_clobber(f, d) ==
    Outcome("ok", [q \in DOMAIN f \cup Prefixes(d) |-> IF q \in Prefixes(d) THEN Dir ELSE f[q]], d)

\* os.makedirs(d, exist_ok=True): every missing directory on the way to d
\* is created; a regular file on the way, or at d, is an OSError
makedirs(f, d) ==
    IF \E q \in Prefixes(d) : q # d /\ IsFile(f, q) THEN Outcome("NotADirectoryError", f, d)
    ELSE IF IsFile(f, d) THEN Outcome("FileExistsError", f, d)
    ELSE Outcome("ok", [q \in DOMAIN f \cup Prefixes(d) |-> IF q \in DOMAIN f THEN f[q] ELSE Dir], d)

\* shutil.copyfile(s, t): t holds the bytes of s and is modified now
copyfile(f, s, t) == Put(f, t, File(f[s].data, Now))
\* shutil.copystat(s, t): t gets the modification time of s
copystat(f, s, t) == Put(f, t, File(f[t].data, f[s].mtime))

\* shutil.copy2(s, d) = copyfile, then copystat. An existing directory d
\* receives the file under the source's base name
copy2(f, s, d) ==
    LET t == IF IsDir(f, d) THEN Join(d, s[Len(s)]) ELSE d IN
    IF t = s THEN Outcome("SameFileError", f, t)
    ELSE IF IsDir(f, t) THEN Outcome("IsADirectoryError", f, t)
    ELSE IF ~IsDir(f, Parent(t)) THEN Outcome("FileNotFoundError", f, t)
    ELSE Outcome("ok", copystat(copyfile(f, s, t), s, t), t)

\* shutil.copytree(s, d), up to its loop: the entries of s are listed, then
\* os.makedirs(d) creates d, which must not exist (dirs_exist_ok=False)
copytree(f, s, d) ==
    IF Exists(f, d) THEN Outcome("FileExistsError", f, d)
    ELSE IF ~IsDir(f, Parent(d)) THEN Outcome("FileNotFoundError", f, d)
    ELSE Outcome("ok", Put(f, d, Dir), d)

\* ------------------------------------------------------------ the program
\* copy_static_files: the two copy_directory calls, in order
DirPaths == <<"dist", "demos">>
\* mutant of SourceOf: every logical name is read from the directory of
\* the same name
SourceOf_same(dir_path) == dir_path

\* copy_directory: s = dir_path if dir_path != "dist" else "build"
SourceOf(dir_path) == IF dir_path # "dist" THEN dir_path ELSE "build"
\* mutant of DestOf: the destination is named after the source directory
DestOf_physical(sd, dir_path) == Join(sd, SourceOf(dir_path))

\* copy_directory: d = os.path.join(site_dir, dir_path)
DestOf(sd, dir_path) == Join(sd, dir_path)

NoResult == [status |-> "none", type |-> "", path |-> <<>>]
Running == [status |-> "running", type |-> "", path |-> <<>>]
Ok == [status |-> "ok", type |-> "", path |-> <<>>]
Error(type, path) == [status |-> "error", type |-> type, path |-> path]

\* one file system call of the invocation in progress
Event(op, src, dst, out) ==
    [op |-> op, job |-> DirPaths[job], depth |-> Len(stack),
     src |-> src, dst |-> dst, to |-> out.to, err |-> out.err]

Top == stack[Len(stack)]
Pop == SubSeq(stack, 1, Len(stack) - 1)
Frame(src, dst, todo) == [src |-> src, dst |-> dst, todo |-> todo]

\* the invocation ends: the history keeps the outcome of the first one
Finish(r) ==
    /\ pc' = "idle"
    /\ stack' = <<>>
    /\ result' = r
    /\ first' = IF calls = 1 THEN [start |-> start, fs |-> fs', result |-> r] ELSE first

\* an exception reaches the caller of copy_static_files: nothing catches it
Raise(type, path) == Finish(Error(type, path))

\* ---------------------------------------------------------- initial states
\* a shape: the files and the (possibly empty) directories of a tree
Shape(files, dirs) == [f |-> files, d |-> dirs]
Absent == Shape({}, {})
AFile == Shape({<<>>}, {})
Empty == Shape({}, {<<>>})
Graft(at, shape) == Shape({at \o p : p \in shape.f}, {at \o p : p \in shape.d})
Both(x, y) == Shape(x.f \cup y.f, x.d \cup y.d)

\* the file system holding a shape; a file's bytes are named after the path
\* it has initially, so that no two initial files have the same content
MkFs(shape) ==
    LET dom == UNION {Prefixes(p) : p \in shape.f \cup shape.d} \cup {<<>>}
    IN  [p \in dom |-> IF p \in shape.f THEN File(p, T0) ELSE Dir]

BuildShapes ==
    { Absent, AFile, Empty,
      Shape({<<"a">>}, {}),
      Shape({<<"s", "b">>}, {}),
      Shape({<<"a">>, <<"s", "b">>}, {}),
      Shape({<<"a">>, <<"s", "b">>, <<"s", "t", "b">>}, {}) }
DemosShapes ==
    { Absent, Empty, Shape({<<"a">>}, {}), Shape({<<"s", "b">>}, {}) }
\* what <site_dir>/dist and <site_dir>/demos hold before the first invocation
DistBefore ==
    { Absent, AFile, Empty,
      Shape({<<"a">>}, {}), Shape({}, {<<"a">>}), Shape({}, {<<"a", "a">>}),
      Shape({<<"s">>}, {}), Shape({}, {<<"s">>}), Shape({<<"z">>}, {}) }
DemosBefore ==
    { Absent, AFile, Empty, Shape({<<"a">>}, {}), Shape({}, {<<"s">>}) }

\* config['site_dir'] and what the file system holds besides the sources
Configs ==
    {[site_dir |-> <<"out">>, shape |-> x] : x \in {Absent, Graft(<<"out">>, AFile)}}
    \cup {[site_dir |-> <<"out">>,
           shape |-> Both(Shape({<<"out", "keep">>}, {}),
                          Both(Graft(<<"out", "dist">>, x), Graft(<<"out", "demos">>, y)))] :
             x \in DistBefore, y \in DemosBefore}
    \cup {[site_dir |-> <<"out", "site">>, shape |-> x] :
             x \in {Absent, Graft(<<"out">>, AFile), Graft(<<"out">>, Empty)}}
    \cup {[site_dir |-> <<"build">>, shape |-> Absent]}
    \cup {[site_dir |-> <<>>, shape |-> Absent]}

Init ==
    \E c \in Configs, b \in BuildShapes, d \in DemosShapes :
        /\ site_dir = c.site_dir
        /\ fs = MkFs(Both(c.shape, Both(Graft(<<"build">>, b), Graft(<<"demos">>, d))))
        /\ pc = "idle"
        /\ job = 1
        /\ stack = <<>>
        /\ result = NoResult
        /\ calls = 0
        /\ start = fs
        /\ first = [start |-> fs, fs |-> fs, result |-> NoResult]
        /\ trace = <<>>

\* ------------------------------------------------------------------ actions
\* copy_static_files(config): site_dir = config['site_dir'], then the first
\* copy_directory call
copy_static_files ==
    /\ pc = "idle"
    /\ calls < MaxCalls
    /\ calls' = calls + 1
    /\ pc' = "copy_directory"
    /\ job' = 1
    /\ stack' = <<>>
    /\ result' = Running
    /\ start' = fs
    /\ trace' = <<>>
    /\ UNCHANGED <<site_dir, fs, first>>

\* mutant of copy_directory: copy_tree is called without os.makedirs
\* having created the destination
copy_directory_unordered ==
    /\ pc = "copy_directory"
    /\ pc' = "copy_tree"
    /\ UNCHANGED <<site_dir, fs, job, stack, result, calls, start, first, trace>>

\* mutant of copy_directory: the destination is created only when the
\* source directory is there
copy_directory_checked ==
    LET d == DestOf(site_dir, DirPaths[job])
        r == makedirs(fs, d) IN
    /\ pc = "copy_directory"
    /\ r.err = "ok"
    /\ fs' = IF IsDir(fs, <<SourceOf(DirPaths[job])>>) THEN r.fs ELSE fs
    /\ trace' = Append(trace, Event("makedirs", <<>>, d, r))
    /\ pc' = "copy_tree"
    /\ UNCHANGED <<site_dir, job, stack, result, calls, start, first>>

\* copy_directory: os.makedirs(d, exist_ok=True) succeeds; copy_tree(s, d)
\* is called next
copy_directory ==
    LET d == DestOf(site_dir, DirPaths[job])
        r == makedirs(fs, d) IN
    /\ pc = "copy_directory"
    /\ r.err = "ok"
    /\ fs' = r.fs
    /\ trace' = Append(trace, Event("makedirs", <<>>, d, r))
    /\ pc' = "copy_tree"
    /\ UNCHANGED <<site_dir, job, stack, result, calls, start, first>>

\* copy_directory: os.makedirs raises
copy_directory_raise ==
    LET d == DestOf(site_dir, DirPaths[job])
        r == makedirs(fs, d) IN
    /\ pc = "copy_directory"
    /\ r.err # "ok"
    /\ fs' = r.fs
    /\ trace' = Append(trace, Event("makedirs", <<>>, d, r))
    /\ Raise(r.err, d)
    /\ UNCHANGED <<site_dir, job, calls, start>>

\* os.listdir(s) for the loop of copy_tree: the error it raises
listdir(f, s) ==
    IF IsDir(f, s) THEN Outcome("ok", f, s)
    ELSE IF Exists(f, s) THEN Outcome("NotADirectoryError", f, s)
    ELSE Outcome("FileNotFoundError", f, s)

\* copy_tree(s, d): os.listdir(src) returns the entries to loop over
copy_tree ==
    LET s == <<SourceOf(DirPaths[job])>>
        d == DestOf(site_dir, DirPaths[job])
        r == listdir(fs, s) IN
    /\ pc = "copy_tree"
    /\ r.err = "ok"
    /\ stack' = <<Frame(s, d, ListDir(fs, s))>>
    /\ trace' = Append(trace, Event("listdir", s, d, r))
    /\ pc' = "loop"
    /\ UNCHANGED <<site_dir, fs, job, result, calls, start, first>>

\* mutant of copy_tree_raise: the error of os.listdir is swallowed and the
\* source taken to be empty
copy_tree_raise_swallow ==
    LET s == <<SourceOf(DirPaths[job])>>
        d == DestOf(site_dir, DirPaths[job])
        r == listdir(fs, s) IN
    /\ pc = "copy_tree"
    /\ r.err # "ok"
    /\ stack' = <<Frame(s, d, {})>>
    /\ trace' = Append(trace, Event("listdir", s, d, r))
    /\ pc' = "loop"
    /\ UNCHANGED <<site_dir, fs, job, result, calls, start, first>>

\* copy_tree(s, d): os.listdir(src) raises
copy_tree_raise ==
    LET s == <<SourceOf(DirPaths[job])>>
        d == DestOf(site_dir, DirPaths[job])
        r == listdir(fs, s) IN
    /\ pc = "copy_tree"
    /\ r.err # "ok"
    /\ fs' = r.fs
    /\ trace' = Append(trace, Event("listdir", s, d, r))
    /\ Raise(r.err, s)
    /\ UNCHANGED <<site_dir, job, calls, start>>

\* the stack with item taken off the entries the innermost loop has left
Taken(item) == [stack EXCEPT ![Len(stack)].todo = @ \ {item}]

\* loop body, else branch: shutil.copy2(s, d) succeeds
copy_file ==
    /\ pc = "loop"
    /\ \E item \in Top.todo :
        LET s == Join(Top.src, item)
            d == Join(Top.dst, item)
            r == copy2(fs, s, d) IN
        /\ ~IsDir(fs, s)
        /\ r.err = "ok"
        /\ fs' = r.fs
        /\ trace' = Append(trace, Event("copy2", s, d, r))
        /\ stack' = Taken(item)
    /\ UNCHANGED <<site_dir, pc, job, result, calls, start, first>>

\* loop body, else branch: shutil.copy2(s, d) raises
copy_file_raise ==
    /\ pc = "loop"
    /\ \E item \in Top.todo :
        LET s == Join(Top.src, item)
            d == Join(Top.dst, item)
            r == copy2(fs, s, d) IN
        /\ ~IsDir(fs, s)
        /\ r.err # "ok"
        /\ fs' = r.fs
        /\ trace' = Append(trace, Event("copy2", s, d, r))
        /\ Raise(r.err, r.to)
    /\ UNCHANGED <<site_dir, job, calls, start>>

\* loop body, if os.path.isdir(s): shutil.copytree(s, d) lists s, creates d
\* and starts on the entries of s
copy_subtree ==
    /\ pc = "loop"
    /\ \E item \in Top.todo :
        LET s == Join(Top.src, item)
            d == Join(Top.dst, item)
            r == copytree(fs, s, d) IN
        /\ IsDir(fs, s)
        /\ r.err = "ok"
        /\ fs' = r.fs
        /\ trace' = Append(trace, Event("copytree", s, d, r))
        /\ stack' = Append(Taken(item), Frame(s, d, ListDir(fs, s)))
    /\ UNCHANGED <<site_dir, pc, job, result, calls, start, first>>

\* loop body, if os.path.isdir(s): shutil.copytree(s, d) raises, d exists
copy_subtree_raise ==
    /\ pc = "loop"
    /\ \E item \in Top.todo :
        LET s == Join(Top.src, item)
            d == Join(Top.dst, item)
            r == copytree(fs, s, d) IN
        /\ IsDir(fs, s)
        /\ r.err # "ok"
        /\ fs' = r.fs
        /\ trace' = Append(trace, Event("copytree", s, d, r))
        /\ Raise(r.err, d)
    /\ UNCHANGED <<site_dir, job, calls, start>>

\* shutil.copytree has copied every entry and returns to the loop that
\* called it
copytree_return ==
    /\ pc = "loop"
    /\ Len(stack) > 1
    /\ Top.todo = {}
    /\ stack' = Pop
    /\ UNCHANGED <<site_dir, fs, pc, job, result, calls, start, first, trace>>

\* copy_tree has copied every entry of the first source: copy_static_files
\* goes on to the next copy_directory call
next_directory ==
    /\ pc = "loop"
    /\ Len(stack) = 1
    /\ Top.todo = {}
    /\ job < Len(DirPaths)
    /\ job' = job + 1
    /\ stack' = <<>>
    /\ pc' = "copy_directory"
    /\ UNCHANGED <<site_dir, fs, result, calls, start, first, trace>>

\* copy_tree has copied every entry of the last source: copy_static_files
\* returns
return ==
    /\ pc = "loop"
    /\ Len(stack) = 1
    /\ Top.todo = {}
    /\ job = Len(DirPaths)
    /\ fs' = fs
    /\ Finish(Ok)
    /\ UNCHANGED <<site_dir, job, calls, start, trace>>

Next ==
    \/ copy_static_files
    \/ copy_directory
    \/ copy_directory_raise
    \/ copy_tree
    \/ copy_tree_raise
    \/ copy_file
    \/ copy_file_raise
    \/ copy_subtree
    \/ copy_subtree_raise
    \/ copytree_return
    \/ next_directory
    \/ return

Spec == Init /\ [][Next]_vars

\* ------------------------------------------------------------ model sanity
TypeOK ==
    /\ pc \in {"idle", "copy_directory", "copy_tree", "loop"}
    /\ job \in 1..Len(DirPaths)
    /\ calls \in 0..MaxCalls
    /\ IsDir(fs, <<>>)
    /\ \A p \in DOMAIN fs : p # <<>> => IsDir(fs, Parent(p))
    /\ pc = "loop" <=> stack # <<>>

\* shutil.copytree collects the errors of the entries it copies and goes
\* on; inside a directory it has just created none can occur, so every
\* error comes from a call copy_tree makes itself
ErrorsAtTopLevel ==
    \A i \in 1..Len(trace) :
        trace[i].err # "ok" /\ trace[i].op \in {"copy2", "copytree"} => trace[i].depth = 1

\* ------------------------------------------------- vocabulary of the claims
\* the logical names, and the trees the specification gives each
Names == {"dist", "demos"}
SourceTree(n) == IF n = "dist" THEN <<"build">> ELSE <<"demos">>
Destination(n) == site_dir \o <<n>>

Finished == pc = "idle" /\ calls > 0
Succeeded == Finished /\ result.status = "ok"
Failed == Finished /\ result.status = "error"

Under(f, root) == {p \in DOMAIN f : IsPrefix(root, p)}
Rel(root, p) == SubSeq(p, Len(root) + 1, Len(p))
\* the tree at root, as a function of the paths relative to root
Tree(f, root) == [q \in {Rel(root, p) : p \in Under(f, root)} |-> f[root \o q]]
Events == {trace[i] : i \in 1..Len(trace)}
Copied == {e \in Events : e.op \in {"copy2", "copytree"} /\ e.err = "ok"}
\* neither destination is a source directory or lies inside one
Disjoint == \A n \in Names, m \in Names : ~IsPrefix(SourceTree(m), Destination(n))

\* C1: after copy_static_files completes without error, every file the
\* source trees 'build' and 'demos' held at relative path p is a file with
\* the same content at <site_dir>/dist/p, resp. <site_dir>/demos/p.
C1_Mirrored ==
    Succeeded =>
        \A n \in Names : \A p \in Under(start, SourceTree(n)) :
            start[p].kind = "file" =>
                LET q == Destination(n) \o Rel(SourceTree(n), p) IN
                IsFile(fs, q) /\ fs[q].data = start[p].data

\* C2: a second invocation with unchanged sources and the same site_dir
\* succeeds and leaves the file system as the first invocation left it.
C2_Idempotent ==
    ( /\ pc = "idle"
      /\ calls = 2
      /\ first.result.status = "ok"
      /\ \A n \in Names : Tree(start, SourceTree(n)) = Tree(first.start, SourceTree(n)) )
    => (result.status = "ok" /\ fs = first.fs)

\* C3: a destination entry that has the name of a source entry of its
\* kind (a file over a file, a subdirectory over a subdirectory) does not
\* make the invocation fail and holds the source's content after a
\* successful invocation; destination entries without a counterpart in the
\* source stay as they were.
C3_Overwritten ==
    \A n \in Names : \A e \in ListDir(start, Destination(n)) :
        LET s == Join(SourceTree(n), e)
            d == Join(Destination(n), e) IN
        /\ (Exists(start, s) /\ start[s].kind = start[d].kind /\ s # d) =>
              /\ ~(Failed /\ result.path = d)
              /\ Succeeded => Tree(fs, d) = Tree(start, s)
        /\ ~Exists(start, s) => Tree(fs, d) = Tree(start, d)

\* C4: 'dist' is read from the directory 'build' and written under
\* <site_dir>/dist, 'demos' is read from 'demos' and written under
\* <site_dir>/demos; nothing is created or written at <site_dir>/build or
\* below it, and the directory 'dist' of the working directory is never
\* read.
C4_SourceResolution ==
    /\ \A e \in Events :
        /\ e.op = "makedirs" => e.dst = Destination(e.job)
        /\ e.op = "listdir" => e.src = SourceTree(e.job) /\ e.dst = Destination(e.job)
        /\ e.op \in {"copy2", "copytree"} =>
              /\ IsPrefix(SourceTree(e.job), e.src)
              /\ IsPrefix(Destination(e.job), e.to)
        /\ e.op # "makedirs" => ~IsPrefix(<<"dist">>, e.src)
        /\ e.op # "listdir" => ~IsPrefix(Join(site_dir, "build"), e.to)
    /\ Tree(fs, Join(site_dir, "build")) = Tree(start, Join(site_dir, "build"))

\* a file of 'build' has arrived under <site_dir>/dist, while the working
\* directory holds a directory 'dist' of its own
C4_Witness ==
    /\ Succeeded
    /\ IsDir(start, <<"dist">>)
    /\ \E e \in Copied : e.job = "dist" /\ e.src = <<"build", "a">>
                         /\ e.to = Join(Destination("dist"), "a")

C6_Creates(ready) ==
    /\ ( /\ Finished
         /\ ready
         /\ \A n \in Names : IsDir(start, SourceTree(n)) )
       => /\ result.status = "ok"
          /\ IsDir(fs, site_dir)
          /\ \A n \in Names : \A p \in Under(start, SourceTree(n)) :
                start[p].kind = "dir" => IsDir(fs, Destination(n) \o Rel(SourceTree(n), p))
    /\ \A e \in Events :
          (e.op = "makedirs" /\ IsDir(start, site_dir) /\ ~IsFile(start, e.dst)) => e.err = "ok"

\* C6 as stated: when site_dir does not exist before the call and both
\* source directories exist, the invocation creates site_dir and the
\* directories mirroring the sources, and completes without error.
C6_CreatesMissingSiteDir == C6_Creates(~Exists(start, site_dir))

\* C6 as amended: the same, when site_dir does not exist before the call,
\* no path on the way to it is a regular file, and it does not lie inside
\* a source directory.
C6_CreatesCreatableSiteDir ==
    C6_Creates(/\ ~Exists(start, site_dir)
               /\ \A q \in Prefixes(site_dir) : ~IsFile(start, q)
               /\ Disjoint)

\* a site_dir two levels down was missing with its parent, and the
\* invocation has created it with a mirrored subdirectory
C6_Witness ==
    /\ Succeeded
    /\ ~Exists(start, Parent(site_dir))
    /\ Len(site_dir) = 2
    /\ IsDir(fs, Join(Destination("demos"), "s"))
    /\ IsFile(fs, Join(Destination("dist"), "a"))

\* C7: every copy (of a file, or of a subdirectory) into a directory comes
\* after the call that created that directory, os.makedirs for
\* <site_dir>/<name> and shutil.copytree for a mirrored subdirectory; the
\* directory that receives a file exists; and no call for 'dist' follows a
\* call for 'demos'.
C7_DirectoryBeforeCopy ==
    \A i \in 1..Len(trace) :
        LET e == trace[i] IN
        /\ e.op \in {"copy2", "copytree"} =>
              \E j \in 1..(i - 1) :
                  /\ trace[j].op \in {"makedirs", "copytree"}
                  /\ trace[j].err = "ok"
                  /\ trace[j].job = e.job
                  /\ trace[j].dst = Parent(e.dst)
        /\ e.op = "copy2" => IsDir(fs, Parent(e.to))
        /\ e.job = "demos" => \A j \in i..Len(trace) : trace[j].job = "demos"

\* both directories were copied, one file into a mirrored subdirectory
C7_Witness ==
    /\ Succeeded
    /\ \E e \in Copied : e.job = "dist" /\ e.op = "copy2" /\ e.depth = 2
    /\ \E e \in Copied : e.job = "demos" /\ e.op = "copy2"

\* the paths whose being a regular file stands in the way of logical name n
Colliding(n) == {x \in {site_dir, Destination(n)} : IsFile(start, x)}

\* C8: when site_dir, <site_dir>/dist or <site_dir>/demos is a regular file
\* as the invocation begins, the invocation ends with an error, the file is
\* as it was, and no entry is copied for the logical name it stands in the
\* way of.
C8_CollisionFails ==
    \A n \in Names : \A x \in Colliding(n) :
        /\ Finished => result.status = "error"
        /\ IsFile(fs, x) /\ fs[x] = start[x]
        /\ \A e \in Copied : e.job # n

\* <site_dir>/demos is a regular file: 'build' was copied, then the
\* invocation failed
C8_Witness ==
    /\ Failed
    /\ IsFile(start, Destination("demos"))
    /\ result = Error("FileExistsError", Destination("demos"))
    /\ \E e \in Copied : e.job = "dist"

\* the frame: nothing that existed is removed or changes its kind, the
\* source trees are as they were, and every path created or modified is
\* site_dir, a directory on the way to it, or a path at or below
\* <site_dir>/dist or <site_dir>/demos
FrameHolds ==
    /\ \A p \in DOMAIN start : Exists(fs, p) /\ fs[p].kind = start[p].kind
    /\ \A n \in Names : Tree(fs, SourceTree(n)) = Tree(start, SourceTree(n))
    /\ \A p \in DOMAIN fs :
          (~Exists(start, p) \/ fs[p] # start[p]) =>
              \/ p \in Prefixes(site_dir)
              \/ \E n \in Names : IsPrefix(Destination(n), p)

\* C9 as stated: the frame holds in every execution.
C9_Frame == FrameHolds

\* C9 as amended: the frame holds in every execution in which neither
\* <site_dir>/dist nor <site_dir>/demos is a source directory ('build',
\* 'demos') or lies inside one.
C9_FrameDisjoint == Disjoint => FrameHolds

\* an invocation has copied into a site_dir that held a file of its own
C9_Witness ==
    /\ Succeeded
    /\ Disjoint
    /\ IsFile(start, Join(site_dir, "keep"))
    /\ \E e \in Copied : e.op = "copy2" /\ ~Exists(start, e.to)

====
